---- MODULE Spec2Model ----
(***************************************************************************)
(* Avellaneda-Stoikov market-making simulator (tspooner/rmm.arl): the      *)
(* dynamics engine (src/dynamics.rs) and the Trader, Adversary and ZeroSum *)
(* domains (src/trader.rs, src/adversary.rs, src/zero_sum.rs).             *)
(*                                                                         *)
(* Numbers.  The program computes in f64; the model computes in exact      *)
(* integers on fixed grids:                                                *)
(*   time, dt        multiples of 1/TimeOne (TimeOne stands for 1.0)       *)
(*   prices, offsets, wealth, reward, eta                                  *)
(*                   integer ticks                                         *)
(*   decay           per tick, so that decay * offset is an integer        *)
(*   exp(x)          ExpFix(x), e^x in units of 1/FixOne on integer x      *)
(*   probabilities   multiples of 1/ProbOne                                *)
(*   adversary action multiples of 1/ActOne                                *)
(* Rounding of f64 arithmetic is not modelled in the domains.  The         *)
(* baseline strategies are also modelled on a binary floating-point grid   *)
(* (SpecStrategy), where every operation rounds to the nearest value with  *)
(* SignificandBits bits, ties to even.                                     *)
(***************************************************************************)
EXTENDS Integers, Sequences, FiniteSets, TLC

VARIABLES
    domain,   \* the domain object: dynamics engine, inv, inv_terminal, reward, wealth, ...
    last,     \* the Transition returned by the latest step call, with what that call did
    steps,    \* number of step calls made on the domain
    driver,   \* position of the calling episode loop: "loop" or "done"
    twin,     \* a second run of the same domain (replay), or NoTwin
    observed, \* what the emit, state_space and action_space calls made since the
              \* latest step call returned
    quotes    \* the baseline strategies held by a caller and their latest compute call

vars == <<domain, last, steps, driver, twin, observed, quotes>>

\* ------------------------------------------------------------------ grids

TimeOne == 1000
FixOne == 1000
ProbOne == FixOne * TimeOne
ActOne == 2

Max(a, b) == IF a >= b THEN a ELSE b
Min(a, b) == IF a <= b THEN a ELSE b

Some(x) == <<x>>
None == <<>>
IsSome(o) == o /= None
Unwrap(o) == o[1]

\* ------------------------------------------------------------------ src/dynamics.rs

\* e^x in units of 1/FixOne for x in -6..3
ExpTable == <<2, 7, 18, 50, 135, 368, 1000, 2718, 7389, 20086>>

\* f64::exp on the integer grid.  Below the table the value is the smallest
\* positive one (f64 underflows to 0 only below -745, outside the modelled
\* range); above the table it saturates.
ExpFix(x) ==
    IF x < -6 THEN 1
    ELSE IF x > 3 THEN ExpTable[10]
    ELSE ExpTable[x + 7]

\* match_prob without the upper clamp
match_prob_unclamped(ed, offset) ==
    LET lambda == ed.scale * ExpFix(-(ed.decay * offset))
    IN  Max(lambda * ed.dt, 0)

\* PoissonRate::match_prob: (scale * exp(-decay * offset) * dt).max(0).min(1)
match_prob(ed, offset) ==
    LET lambda == ed.scale * ExpFix(-(ed.decay * offset))
    IN  Min(Max(lambda * ed.dt, 0), ProbOne)

\* BrownianMotion::sample_increment; w is the draw, in ticks per unit volatility
\* (the factor sqrt(dt) is folded into the draw)
BrownianMotion_sample_increment(pd, w) ==
    pd.volatility * w

\* BrownianMotionWithDrift::sample_increment
BrownianMotionWithDrift_sample_increment(pd, w) ==
    (pd.drift * pd.dt) \div TimeOne + pd.volatility * w

sample_increment(pd, w) ==
    IF pd.type = "BrownianMotion"
    THEN BrownianMotion_sample_increment(pd, w)
    ELSE BrownianMotionWithDrift_sample_increment(pd, w)

\* ASDynamics::new
ASDynamics_new(dt, price, rng, price_dynamics, execution_dynamics) ==
    [ rng |-> rng,
      dt |-> dt,
      time |-> 0,
      price |-> price,
      price_initial |-> price,
      price_dynamics |-> price_dynamics,
      execution_dynamics |-> execution_dynamics ]

\* rand::thread_rng(): a handle obtained at the call, not the engine's rng field
thread_rng == "thread_rng()"

\* innovate that returns the increment without adding it to the price
innovate_time_only(dyn, w) ==
    LET rng == thread_rng
        price_inc == sample_increment(dyn.price_dynamics, w)
    IN  [ dynamics |-> [dyn EXCEPT !.time = @ + dyn.dt],
          price_inc |-> price_inc,
          draws |-> << [by |-> "innovate", from |-> rng, w |-> w] >> ]

\* ASDynamics::innovate; w is the normal draw taken from the handle of line 206
\* (the draw is kept in the record of draws)
innovate(dyn, w) ==
    LET rng == thread_rng
        price_inc == sample_increment(dyn.price_dynamics, w)
    IN  [ dynamics |-> [dyn EXCEPT !.time = @ + dyn.dt, !.price = @ + price_inc],
          price_inc |-> price_inc,
          draws |-> << [by |-> "innovate", from |-> rng, w |-> w] >> ]

\* gen_bool that is true at u = p
gen_bool_inclusive(p, u) == u <= p

\* Rng::gen_bool(p) on the uniform draw u in [0, 1): true iff u < p
gen_bool(p, u) == u < p

\* the draw of try_execute: if rng.gen_bool(p) { Some(offset) } else { None };
\* u is the uniform draw taken from rng, p the probability handed to gen_bool
\* (kept in the record of draws)
try_execute_draw(rng, p, offset, u) ==
    [ result |-> IF gen_bool(p, u) THEN Some(offset) ELSE None,
      draws |-> << [by |-> "try_execute", from |-> rng, p |-> p] >> ]

\* ASDynamics::try_execute: the match probability of the offset, then the draw
\* from self.rng
try_execute(dyn, offset, u) ==
    try_execute_draw(dyn.rng, match_prob(dyn.execution_dynamics, offset), offset, u)

\* the outcome r of a try_execute call, its draw marked with the caller
Via(caller, r) ==
    [ result |-> r.result,
      draws |-> << [by |-> r.draws[1].by, from |-> r.draws[1].from,
                    p |-> r.draws[1].p, via |-> caller] >> ]

\* try_execute_ask that measures the offset with the bid's sign
try_execute_ask_reversed(dyn, order_price, u) ==
    LET offset == dyn.price - order_price
    IN  Via("try_execute_ask", try_execute(dyn, offset, u))

\* ASDynamics::try_execute_ask
try_execute_ask(dyn, order_price, u) ==
    LET offset == order_price - dyn.price
    IN  Via("try_execute_ask", try_execute(dyn, offset, u))

\* ASDynamics::try_execute_bid
try_execute_bid(dyn, order_price, u) ==
    LET offset == dyn.price - order_price
    IN  Via("try_execute_bid", try_execute(dyn, offset, u))

\* ------------------------------------------------------------------ domains

INV_BOUNDS == <<-50, 50>>

\* is_terminal with a strict comparison
is_terminal_strict(s) == s.dynamics.time > TimeOne

\* is_terminal of the three domains
is_terminal(s) == s.dynamics.time >= TimeOne

\* emit that flags the observation terminal only after time = 1
emit_late_terminal(s) ==
    LET state == << s.dynamics.time,
                    Max(Min(s.inv, INV_BOUNDS[2]), INV_BOUNDS[1]) >>
    IN  [state |-> state, terminal |-> s.dynamics.time > TimeOne]

\* emit of the three domains
emit(s) ==
    LET state == << s.dynamics.time,
                    Max(Min(s.inv, INV_BOUNDS[2]), INV_BOUNDS[1]) >>
    IN  [state |-> state, terminal |-> is_terminal(s)]

\* emit called on a domain: fn emit(&self) hands back the observation and the
\* domain it was called on; this one clears reward as it reads
emit_call_consuming(s) == [dom |-> [s EXCEPT !.reward = 0], result |-> emit(s)]

\* emit called on a domain: fn emit(&self)
emit_call(s) == [dom |-> s, result |-> emit(s)]

\* state_space of the three domains: time in [0, 1], inventory in INV_BOUNDS
state_space(s) ==
    [ dom |-> s,
      result |-> << [lo |-> 0, hi |-> TimeOne],
                    [lo |-> INV_BOUNDS[1], hi |-> INV_BOUNDS[2]] >> ]

\* action_space of the three domains: two reals for the Trader, [0, 1] for the
\* Adversary, the pair of both for ZeroSum
action_space(s) ==
    [ dom |-> s,
      result |-> IF s.kind = "Trader" THEN << "Reals", "Reals" >>
                 ELSE IF s.kind = "Adversary" THEN [lo |-> 0, hi |-> ActOne]
                 ELSE << << "Reals", "Reals" >>, [lo |-> 0, hi |-> ActOne] >> ]

\* TraderDomain::new
TraderDomain_new(dynamics, eta) ==
    [ kind |-> "Trader",
      dynamics |-> dynamics,
      inv |-> 0,
      inv_terminal |-> 0,
      reward |-> 0,
      wealth |-> 0,
      eta |-> eta,
      inv_strategy |-> None ]

\* do_executions whose bid guard admits inv = 50
TraderDomain_do_executions_bid_at_bound(s, ask_price, bid_price, u1, u2) ==
    LET askTry == s.inv > INV_BOUNDS[1]
        ask == IF askTry THEN try_execute_ask(s.dynamics, ask_price, u1)
               ELSE [result |-> None, draws |-> << >>]
        s1 == IF IsSome(ask.result)
              THEN [s EXCEPT !.inv = @ - 1,
                             !.reward = @ + Unwrap(ask.result),
                             !.wealth = @ + ask_price]
              ELSE s
        bidTry == s1.inv <= INV_BOUNDS[2]
        bid == IF bidTry THEN try_execute_bid(s1.dynamics, bid_price, u2)
               ELSE [result |-> None, draws |-> << >>]
        s2 == IF IsSome(bid.result)
              THEN [s1 EXCEPT !.inv = @ + 1,
                              !.reward = @ + Unwrap(bid.result),
                              !.wealth = @ - bid_price]
              ELSE s1
    IN  [ dom |-> s2,
          ask |-> [tried |-> askTry, result |-> ask.result],
          bid |-> [tried |-> bidTry, result |-> bid.result],
          inv_mid |-> s1.inv,
          draws |-> ask.draws \o bid.draws ]

\* TraderDomain::do_executions
TraderDomain_do_executions(s, ask_price, bid_price, u1, u2) ==
    LET askTry == s.inv > INV_BOUNDS[1]
        ask == IF askTry THEN try_execute_ask(s.dynamics, ask_price, u1)
               ELSE [result |-> None, draws |-> << >>]
        s1 == IF IsSome(ask.result)
              THEN [s EXCEPT !.inv = @ - 1,
                             !.reward = @ + Unwrap(ask.result),
                             !.wealth = @ + ask_price]
              ELSE s
        bidTry == s1.inv < INV_BOUNDS[2]
        bid == IF bidTry THEN try_execute_bid(s1.dynamics, bid_price, u2)
               ELSE [result |-> None, draws |-> << >>]
        s2 == IF IsSome(bid.result)
              THEN [s1 EXCEPT !.inv = @ + 1,
                              !.reward = @ + Unwrap(bid.result),
                              !.wealth = @ - bid_price]
              ELSE s1
    IN  [ dom |-> s2,
          ask |-> [tried |-> askTry, result |-> ask.result],
          bid |-> [tried |-> bidTry, result |-> bid.result],
          inv_mid |-> s1.inv,
          draws |-> ask.draws \o bid.draws ]

\* liquidation that resets inv before taking the snapshot
TraderDomain_liquidate_reset_first(s) ==
    [s EXCEPT !.wealth = @ + s.dynamics.price * s.inv,
              !.reward = @ - s.eta * (s.inv * s.inv),
              !.inv_terminal = 0,
              !.inv = 0]

\* liquidation that computes the penalty from the inventory after the reset
TraderDomain_liquidate_penalty_after_reset(s) ==
    [s EXCEPT !.wealth = @ + s.dynamics.price * s.inv,
              !.reward = @ - s.eta * (0 * 0),
              !.inv_terminal = s.inv,
              !.inv = 0]

\* the terminal branch of TraderDomain::update_state
TraderDomain_liquidate(s) ==
    [s EXCEPT !.wealth = @ + s.dynamics.price * s.inv,
              !.reward = @ - s.eta * (s.inv * s.inv),
              !.inv_terminal = s.inv,
              !.inv = 0]

\* update_state that quotes from the price after innovate, as ZeroSum does
TraderDomain_update_state_quote_after(s, ask_offset, bid_offset, w, u1, u2) ==
    LET inn == innovate(s.dynamics, w)
        s1 == [s EXCEPT !.dynamics = inn.dynamics,
                        !.reward = s.inv * inn.price_inc]
        ask_price == s1.dynamics.price + ask_offset
        bid_price == s1.dynamics.price - bid_offset
        ex == TraderDomain_do_executions(s1, ask_price, bid_price, u1, u2)
        liq == is_terminal(ex.dom)
    IN  [ dom |-> IF liq THEN TraderDomain_liquidate(ex.dom) ELSE ex.dom,
          price_inc |-> inn.price_inc,
          innovated |-> inn.dynamics,
          ask |-> ex.ask,
          bid |-> ex.bid,
          inv_mid |-> ex.inv_mid,
          fills |-> ex.dom,
          liquidated |-> liq,
          draws |-> inn.draws \o ex.draws ]

\* TraderDomain::update_state
TraderDomain_update_state(s, ask_offset, bid_offset, w, u1, u2) ==
    LET ask_price == s.dynamics.price + ask_offset
        bid_price == s.dynamics.price - bid_offset
        inn == innovate(s.dynamics, w)
        s1 == [s EXCEPT !.dynamics = inn.dynamics,
                        !.reward = s.inv * inn.price_inc]
        ex == TraderDomain_do_executions(s1, ask_price, bid_price, u1, u2)
        liq == is_terminal(ex.dom)
    IN  [ dom |-> IF liq THEN TraderDomain_liquidate(ex.dom) ELSE ex.dom,
          price_inc |-> inn.price_inc,
          innovated |-> inn.dynamics,
          ask |-> ex.ask,
          bid |-> ex.bid,
          inv_mid |-> ex.inv_mid,
          fills |-> ex.dom,
          liquidated |-> liq,
          draws |-> inn.draws \o ex.draws ]

\* step that returns at once on a domain that is already terminal
TraderDomain_step_guarded(s, action, w, u1, u2) ==
    IF is_terminal(s)
    THEN [ dom |-> s,
           input |-> action,
           transition |-> [from |-> emit(s), action |-> action,
                           to |-> emit(s), reward |-> s.reward],
           up |-> [ dom |-> s, price_inc |-> 0, innovated |-> s.dynamics,
                    ask |-> [tried |-> FALSE, result |-> None],
                    bid |-> [tried |-> FALSE, result |-> None],
                    inv_mid |-> s.inv, fills |-> s, liquidated |-> FALSE,
                    draws |-> << >> ] ]
    ELSE [ dom |-> TraderDomain_update_state(s, action[1], action[2], w, u1, u2).dom,
           input |-> action,
           transition |-> [from |-> emit(s), action |-> action,
                           to |-> emit(TraderDomain_update_state(
                                           s, action[1], action[2], w, u1, u2).dom),
                           reward |-> TraderDomain_update_state(
                                          s, action[1], action[2], w, u1, u2).dom.reward],
           up |-> TraderDomain_update_state(s, action[1], action[2], w, u1, u2) ]

\* TraderDomain::step
TraderDomain_step(s, action, w, u1, u2) ==
    LET from == emit(s)
        up == TraderDomain_update_state(s, action[1], action[2], w, u1, u2)
    IN  [ dom |-> up.dom,
          input |-> action,
          transition |-> [from |-> from, action |-> action,
                          to |-> emit(up.dom), reward |-> up.dom.reward],
          up |-> up ]

\* ------------------------------------------------------------------ src/strategies.rs

\* LinearUtilityTerminalPenaltyStrategy::new
LinearUtilityTerminalPenaltyStrategy_new(k, eta) == [k |-> k, eta |-> eta]

\* LinearUtilityTerminalPenaltyStrategy::compute (k and eta are chosen so that
\* 2/k and sp/2 are whole ticks)
LinearUtilityTerminalPenaltyStrategy_compute(st, time, price, inventory) ==
    LET rp == price - 2 * inventory * st.eta
        sp == (2 \div st.k) + st.eta
    IN  << rp + (sp \div 2) - price, price - (rp - (sp \div 2)) >>

\* The same strategies in floating-point arithmetic.  A number is an integer
\* count of 1/FloatOne; as in f64, every operation returns the exact result
\* rounded to the nearest number with a significand of SignificandBits bits
\* (53 in f64), ties to even.  Below FloatOne / 2^SignificandBits the grid
\* itself is the spacing, as for subnormals; overflow is out of range.
FloatOne == 256
SignificandBits == 4

Pow2(n) == 2 ^ n

\* the spacing of the floating-point numbers around a / d (a >= 0, d > 0)
RECURSIVE Quantum(_, _, _)
Quantum(a, d, q) ==
    IF a < Pow2(SignificandBits) * q * d THEN q ELSE Quantum(a, d, 2 * q)

\* n / d (d > 0) rounded to the nearest floating-point number, ties to even
Round(n, d) ==
    LET a == IF n < 0 THEN -n ELSE n
        q == Quantum(a, d, 1)
        m == a \div (d * q)
        r == a - m * d * q
        up == 2 * r > d * q \/ (2 * r = d * q /\ m % 2 = 1)
        v == (IF up THEN m + 1 ELSE m) * q
    IN  IF n < 0 THEN -v ELSE v

\* f64 +, -, * and /
FlAdd(a, b) == Round(a + b, 1)
FlSub(a, b) == Round(a - b, 1)
FlMul(a, b) == Round(a * b, FloatOne)
FlDiv(a, b) == IF b > 0 THEN Round(a * FloatOne, b) ELSE Round(-(a * FloatOne), -b)

\* LinearUtilityStrategy::new
LinearUtilityStrategy_new(k) == [k |-> k]

\* LinearUtilityStrategy::compute: [1.0 / k, 1.0 / k]
LinearUtilityStrategy_compute(st, time, price, inventory) ==
    << FlDiv(FloatOne, st.k), FlDiv(FloatOne, st.k) >>

\* LinearUtilityTerminalPenaltyStrategy::compute, operation by operation:
\*   rp = price - 2.0 * inventory * eta;  sp = 2.0 / k + eta;
\*   [rp + sp / 2.0 - price, price - (rp - sp / 2.0)]
LinearUtilityTerminalPenaltyStrategy_compute_f64(st, time, price, inventory) ==
    LET two == 2 * FloatOne
        rp == FlSub(price, FlMul(FlMul(two, inventory), st.eta))
        sp == FlAdd(FlDiv(two, st.k), st.eta)
        half == FlDiv(sp, two)
    IN  << FlSub(FlAdd(rp, half), price), FlSub(price, FlSub(rp, half)) >>

\* ------------------------------------------------------------------ src/adversary.rs

MAX_DRIFT == 5

\* AdversaryDomain::new
AdversaryDomain_new(dynamics, eta) ==
    [ kind |-> "Adversary",
      dynamics |-> dynamics,
      inv |-> 0,
      inv_terminal |-> 0,
      reward |-> 0,
      wealth |-> 0,
      eta |-> 0,
      inv_strategy |-> Some(LinearUtilityTerminalPenaltyStrategy_new(
                                dynamics.execution_dynamics.decay, eta)) ]

\* do_executions that credits the fills to reward, as the Trader's does
AdversaryDomain_do_executions_credit(s, ask_price, bid_price, u1, u2) ==
    LET askTry == s.inv > INV_BOUNDS[1]
        ask == IF askTry THEN try_execute_ask(s.dynamics, ask_price, u1)
               ELSE [result |-> None, draws |-> << >>]
        s1 == IF IsSome(ask.result)
              THEN [s EXCEPT !.inv = @ - 1,
                             !.reward = @ + Unwrap(ask.result),
                             !.wealth = @ + ask_price]
              ELSE s
        bidTry == s1.inv < INV_BOUNDS[2]
        bid == IF bidTry THEN try_execute_bid(s1.dynamics, bid_price, u2)
               ELSE [result |-> None, draws |-> << >>]
        s2 == IF IsSome(bid.result)
              THEN [s1 EXCEPT !.inv = @ + 1,
                              !.reward = @ + Unwrap(bid.result),
                              !.wealth = @ - bid_price]
              ELSE s1
    IN  [ dom |-> s2,
          ask |-> [tried |-> askTry, result |-> ask.result],
          bid |-> [tried |-> bidTry, result |-> bid.result],
          inv_mid |-> s1.inv,
          draws |-> ask.draws \o bid.draws ]

\* AdversaryDomain::do_executions
AdversaryDomain_do_executions(s, ask_price, bid_price, u1, u2) ==
    LET askTry == s.inv > INV_BOUNDS[1]
        ask == IF askTry THEN try_execute_ask(s.dynamics, ask_price, u1)
               ELSE [result |-> None, draws |-> << >>]
        s1 == IF IsSome(ask.result)
              THEN [s EXCEPT !.inv = @ - 1,
                             !.reward = @ - Unwrap(ask.result),
                             !.wealth = @ + ask_price]
              ELSE s
        bidTry == s1.inv < INV_BOUNDS[2]
        bid == IF bidTry THEN try_execute_bid(s1.dynamics, bid_price, u2)
               ELSE [result |-> None, draws |-> << >>]
        s2 == IF IsSome(bid.result)
              THEN [s1 EXCEPT !.inv = @ + 1,
                              !.reward = @ - Unwrap(bid.result),
                              !.wealth = @ - bid_price]
              ELSE s1
    IN  [ dom |-> s2,
          ask |-> [tried |-> askTry, result |-> ask.result],
          bid |-> [tried |-> bidTry, result |-> bid.result],
          inv_mid |-> s1.inv,
          draws |-> ask.draws \o bid.draws ]

\* terminal branch that charges the strategy's eta * inv^2 to reward, as the
\* Trader's charges its own
AdversaryDomain_liquidate_penalty(s) ==
    [s EXCEPT !.wealth = @ + s.dynamics.price * s.inv,
              !.reward = @ - Unwrap(s.inv_strategy).eta * (s.inv * s.inv),
              !.inv_terminal = s.inv,
              !.inv = 0]

\* a terminal branch that records the inventory and keeps holding it
AdversaryDomain_liquidate_keep_inv(s) ==
    [s EXCEPT !.wealth = @ + s.dynamics.price * s.inv,
              !.inv_terminal = s.inv]

\* the terminal branch of AdversaryDomain::update_state
AdversaryDomain_liquidate(s) ==
    [s EXCEPT !.wealth = @ + s.dynamics.price * s.inv,
              !.inv_terminal = s.inv,
              !.inv = 0]

\* update_state that starts the reward at inv * increment, as the Trader's does
AdversaryDomain_update_state_unsigned(s, drift, w, u1, u2) ==
    LET offsets == LinearUtilityTerminalPenaltyStrategy_compute(
                       Unwrap(s.inv_strategy), s.dynamics.time, s.dynamics.price, s.inv)
        ask_price == s.dynamics.price + offsets[1]
        bid_price == s.dynamics.price - offsets[2]
        dyn1 == [s.dynamics EXCEPT !.price_dynamics.drift =
                    (MAX_DRIFT * (2 * drift - ActOne)) \div ActOne]
        inn == innovate(dyn1, w)
        s1 == [s EXCEPT !.dynamics = inn.dynamics,
                        !.reward = s.inv * inn.price_inc]
        ex == AdversaryDomain_do_executions(s1, ask_price, bid_price, u1, u2)
        liq == is_terminal(ex.dom)
    IN  [ dom |-> IF liq THEN AdversaryDomain_liquidate(ex.dom) ELSE ex.dom,
          price_inc |-> inn.price_inc,
          innovated |-> inn.dynamics,
          ask |-> ex.ask,
          bid |-> ex.bid,
          inv_mid |-> ex.inv_mid,
          fills |-> ex.dom,
          liquidated |-> liq,
          draws |-> inn.draws \o ex.draws ]

\* AdversaryDomain::update_state; drift is the action, in units of 1/ActOne
AdversaryDomain_update_state(s, drift, w, u1, u2) ==
    LET offsets == LinearUtilityTerminalPenaltyStrategy_compute(
                       Unwrap(s.inv_strategy), s.dynamics.time, s.dynamics.price, s.inv)
        ask_price == s.dynamics.price + offsets[1]
        bid_price == s.dynamics.price - offsets[2]
        dyn1 == [s.dynamics EXCEPT !.price_dynamics.drift =
                    (MAX_DRIFT * (2 * drift - ActOne)) \div ActOne]
        inn == innovate(dyn1, w)
        s1 == [s EXCEPT !.dynamics = inn.dynamics,
                        !.reward = -(s.inv * inn.price_inc)]
        ex == AdversaryDomain_do_executions(s1, ask_price, bid_price, u1, u2)
        liq == is_terminal(ex.dom)
    IN  [ dom |-> IF liq THEN AdversaryDomain_liquidate(ex.dom) ELSE ex.dom,
          price_inc |-> inn.price_inc,
          innovated |-> inn.dynamics,
          ask |-> ex.ask,
          bid |-> ex.bid,
          inv_mid |-> ex.inv_mid,
          fills |-> ex.dom,
          liquidated |-> liq,
          draws |-> inn.draws \o ex.draws ]

\* step that hands the action to update_state as it came
AdversaryDomain_step_unclamped(s, action0, w, u1, u2) ==
    LET from == emit(s)
        action == action0
        up == AdversaryDomain_update_state(s, action, w, u1, u2)
    IN  [ dom |-> up.dom,
          input |-> action0,
          transition |-> [from |-> from, action |-> action,
                          to |-> emit(up.dom), reward |-> up.dom.reward],
          up |-> up ]

\* AdversaryDomain::step; action0 is the caller's action, in units of 1/ActOne
AdversaryDomain_step(s, action0, w, u1, u2) ==
    LET from == emit(s)
        action == Max(Min(action0, ActOne), 0)
        up == AdversaryDomain_update_state(s, action, w, u1, u2)
    IN  [ dom |-> up.dom,
          input |-> action0,
          transition |-> [from |-> from, action |-> action,
                          to |-> emit(up.dom), reward |-> up.dom.reward],
          up |-> up ]

\* ------------------------------------------------------------------ src/zero_sum.rs

\* the literal 10.0 of ZeroSumDomain::step
ZS_MAX_DRIFT == 10

\* ZeroSumDomain::new
ZeroSumDomain_new(dynamics) ==
    [ kind |-> "ZeroSum",
      dynamics |-> dynamics,
      inv |-> 0,
      inv_terminal |-> 0,
      reward |-> 0,
      wealth |-> 0,
      eta |-> 0,
      inv_strategy |-> None ]

\* do_executions whose ask guard admits inv = -50
ZeroSumDomain_do_executions_ask_at_bound(s, ask_price, bid_price, u1, u2) ==
    LET askTry == s.inv >= INV_BOUNDS[1]
        ask == IF askTry THEN try_execute_ask(s.dynamics, ask_price, u1)
               ELSE [result |-> None, draws |-> << >>]
        s1 == IF IsSome(ask.result)
              THEN [s EXCEPT !.inv = @ - 1,
                             !.reward = @ + Unwrap(ask.result),
                             !.wealth = @ + ask_price]
              ELSE s
        bidTry == s1.inv < INV_BOUNDS[2]
        bid == IF bidTry THEN try_execute_bid(s1.dynamics, bid_price, u2)
               ELSE [result |-> None, draws |-> << >>]
        s2 == IF IsSome(bid.result)
              THEN [s1 EXCEPT !.inv = @ + 1,
                              !.reward = @ + Unwrap(bid.result),
                              !.wealth = @ - bid_price]
              ELSE s1
    IN  [ dom |-> s2,
          ask |-> [tried |-> askTry, result |-> ask.result],
          bid |-> [tried |-> bidTry, result |-> bid.result],
          inv_mid |-> s1.inv,
          draws |-> ask.draws \o bid.draws ]

\* do_executions that attempts the bid before the ask
ZeroSumDomain_do_executions_bid_first(s, ask_price, bid_price, u1, u2) ==
    LET bidTry == s.inv < INV_BOUNDS[2]
        bid == IF bidTry THEN try_execute_bid(s.dynamics, bid_price, u2)
               ELSE [result |-> None, draws |-> << >>]
        s1 == IF IsSome(bid.result)
              THEN [s EXCEPT !.inv = @ + 1,
                             !.reward = @ + Unwrap(bid.result),
                             !.wealth = @ - bid_price]
              ELSE s
        askTry == s1.inv > INV_BOUNDS[1]
        ask == IF askTry THEN try_execute_ask(s1.dynamics, ask_price, u1)
               ELSE [result |-> None, draws |-> << >>]
        s2 == IF IsSome(ask.result)
              THEN [s1 EXCEPT !.inv = @ - 1,
                              !.reward = @ + Unwrap(ask.result),
                              !.wealth = @ + ask_price]
              ELSE s1
    IN  [ dom |-> s2,
          ask |-> [tried |-> askTry, result |-> ask.result],
          bid |-> [tried |-> bidTry, result |-> bid.result],
          inv_mid |-> s1.inv,
          draws |-> bid.draws \o ask.draws ]

\* ZeroSumDomain::do_executions
ZeroSumDomain_do_executions(s, ask_price, bid_price, u1, u2) ==
    LET askTry == s.inv > INV_BOUNDS[1]
        ask == IF askTry THEN try_execute_ask(s.dynamics, ask_price, u1)
               ELSE [result |-> None, draws |-> << >>]
        s1 == IF IsSome(ask.result)
              THEN [s EXCEPT !.inv = @ - 1,
                             !.reward = @ + Unwrap(ask.result),
                             !.wealth = @ + ask_price]
              ELSE s
        bidTry == s1.inv < INV_BOUNDS[2]
        bid == IF bidTry THEN try_execute_bid(s1.dynamics, bid_price, u2)
               ELSE [result |-> None, draws |-> << >>]
        s2 == IF IsSome(bid.result)
              THEN [s1 EXCEPT !.inv = @ + 1,
                              !.reward = @ + Unwrap(bid.result),
                              !.wealth = @ - bid_price]
              ELSE s1
    IN  [ dom |-> s2,
          ask |-> [tried |-> askTry, result |-> ask.result],
          bid |-> [tried |-> bidTry, result |-> bid.result],
          inv_mid |-> s1.inv,
          draws |-> ask.draws \o bid.draws ]

\* a terminal branch that drops the inventory without selling it
ZeroSumDomain_liquidate_no_proceeds(s) ==
    [s EXCEPT !.inv_terminal = s.inv,
              !.inv = 0]

\* the terminal branch of ZeroSumDomain::update_state
ZeroSumDomain_liquidate(s) ==
    [s EXCEPT !.wealth = @ + s.dynamics.price * s.inv,
              !.inv_terminal = s.inv,
              !.inv = 0]

\* update_state that sets the quotes from the price before the innovation
ZeroSumDomain_update_state_quote_before(s, trader_action, adversary_action, w, u1, u2) ==
    LET dyn1 == [s.dynamics EXCEPT !.price_dynamics.drift = adversary_action]
        inn == innovate(dyn1, w)
        s1 == [s EXCEPT !.dynamics = inn.dynamics,
                        !.reward = s.inv * inn.price_inc]
        ask_price == s.dynamics.price + trader_action[1]
        bid_price == s.dynamics.price - trader_action[2]
        ex == ZeroSumDomain_do_executions(s1, ask_price, bid_price, u1, u2)
        liq == is_terminal(ex.dom)
    IN  [ dom |-> IF liq THEN ZeroSumDomain_liquidate(ex.dom) ELSE ex.dom,
          price_inc |-> inn.price_inc,
          innovated |-> inn.dynamics,
          ask |-> ex.ask,
          bid |-> ex.bid,
          inv_mid |-> ex.inv_mid,
          fills |-> ex.dom,
          liquidated |-> liq,
          draws |-> inn.draws \o ex.draws ]

\* ZeroSumDomain::update_state; adversary_action is already a drift
ZeroSumDomain_update_state(s, trader_action, adversary_action, w, u1, u2) ==
    LET dyn1 == [s.dynamics EXCEPT !.price_dynamics.drift = adversary_action]
        inn == innovate(dyn1, w)
        s1 == [s EXCEPT !.dynamics = inn.dynamics,
                        !.reward = s.inv * inn.price_inc]
        ask_price == s1.dynamics.price + trader_action[1]
        bid_price == s1.dynamics.price - trader_action[2]
        ex == ZeroSumDomain_do_executions(s1, ask_price, bid_price, u1, u2)
        liq == is_terminal(ex.dom)
    IN  [ dom |-> IF liq THEN ZeroSumDomain_liquidate(ex.dom) ELSE ex.dom,
          price_inc |-> inn.price_inc,
          innovated |-> inn.dynamics,
          ask |-> ex.ask,
          bid |-> ex.bid,
          inv_mid |-> ex.inv_mid,
          fills |-> ex.dom,
          liquidated |-> liq,
          draws |-> inn.draws \o ex.draws ]

\* step that hands the trader's offsets to update_state as they came
ZeroSumDomain_step_raw_offsets(s, action, w, u1, u2) ==
    LET from == emit(s)
        trader_action == << action[1][1], action[1][2] >>
        adversary_action == (ZS_MAX_DRIFT * (2 * action[2] - ActOne)) \div ActOne
        up == ZeroSumDomain_update_state(s, trader_action, adversary_action, w, u1, u2)
    IN  [ dom |-> up.dom,
          input |-> action,
          transition |-> [from |-> from, action |-> action,
                          to |-> emit(up.dom), reward |-> up.dom.reward],
          up |-> up ]

\* ZeroSumDomain::step; action = <<trader offsets, adversary action in 1/ActOne>>
ZeroSumDomain_step(s, action, w, u1, u2) ==
    LET from == emit(s)
        trader_action == << Max(action[1][1], 0), Max(action[1][2], 0) >>
        adversary_action == (ZS_MAX_DRIFT * (2 * action[2] - ActOne)) \div ActOne
        up == ZeroSumDomain_update_state(s, trader_action, adversary_action, w, u1, u2)
    IN  [ dom |-> up.dom,
          input |-> action,
          transition |-> [from |-> from, action |-> action,
                          to |-> emit(up.dom), reward |-> up.dom.reward],
          up |-> up ]

\* ------------------------------------------------------------------ construction

\* PoissonRate::new
PoissonRate_new(dt, scale, decay) == [dt |-> dt, scale |-> scale, decay |-> decay]

\* BrownianMotion::new
BrownianMotion_new(dt, volatility) ==
    [type |-> "BrownianMotion", dt |-> dt, volatility |-> volatility]

\* BrownianMotionWithDrift::new
BrownianMotionWithDrift_new(dt, drift, volatility) ==
    [type |-> "BrownianMotionWithDrift", dt |-> dt, drift |-> drift,
     volatility |-> volatility]

\* the rng argument of ASDynamics::new, stored in the engine's rng field
InjectedRng == "self.rng"

\* the domains a caller can construct for the parameters p =
\* [dt, price, volatility, scale, decay, kinds, etas]: TraderDomain::new over
\* BrownianMotion, AdversaryDomain::new and ZeroSumDomain::new over
\* BrownianMotionWithDrift with drift 0
FreshDomains(p) ==
    LET ed == PoissonRate_new(p.dt, p.scale, p.decay)
        bm == BrownianMotion_new(p.dt, p.volatility)
        bmd == BrownianMotionWithDrift_new(p.dt, 0, p.volatility)
    IN  { TraderDomain_new(ASDynamics_new(p.dt, p.price, InjectedRng, bm, ed), eta) :
              eta \in IF "Trader" \in p.kinds THEN p.trader_etas ELSE {} }
        \cup
        { AdversaryDomain_new(ASDynamics_new(p.dt, p.price, InjectedRng, bmd, ed), eta) :
              eta \in IF "Adversary" \in p.kinds THEN p.adversary_etas ELSE {} }
        \cup
        { ZeroSumDomain_new(ASDynamics_new(p.dt, p.price, InjectedRng, bmd, ed)) :
              k \in p.kinds \cap {"ZeroSum"} }

Kinds == {"Trader", "Adversary", "ZeroSum"}

\* ------------------------------------------------------------------ bounds and inputs

\* step calls per run in Spec and SpecReplay
MaxSteps == 3
\* step calls per run in SpecLong
MaxLongSteps == 54

\* normal draws (in ticks) and uniform draws (in 1/ProbOne) offered to a step
WDraws == {-1, 1}
UDraws == {0, ProbOne - 1}

\* actions offered to step
TraderActions == { <<1, 1>>, <<0, 2>> }
AdversaryActions == { -1, 1, 3 }
ZeroSumActions == { << <<1, 1>>, 1 >>, << <<-1, 2>>, 3 >>, << <<0, 1>>, -1 >> }

\* ------------------------------------------------------------------ the step calls

\* the record kept of a step call r made on the domain s: the fields before the
\* call, the engine as innovate left it (innovated) and as the fill attempts
\* left it (executed), the domain's books after the fills, and the draws
StepRecord(s, r) ==
    [ input |-> r.input,
      transition |-> r.transition,
      before |-> [time |-> s.dynamics.time, price |-> s.dynamics.price,
                  inv |-> s.inv, inv_terminal |-> s.inv_terminal,
                  wealth |-> s.wealth, dt |-> s.dynamics.dt,
                  price_initial |-> s.dynamics.price_initial,
                  execution_dynamics |-> s.dynamics.execution_dynamics],
      price_inc |-> r.up.price_inc,
      innovated |-> r.up.innovated,
      executed |-> r.up.fills.dynamics,
      ask |-> r.up.ask,
      bid |-> r.up.bid,
      inv_mid |-> r.up.inv_mid,
      fills |-> [inv |-> r.up.fills.inv, reward |-> r.up.fills.reward,
                 wealth |-> r.up.fills.wealth],
      liquidated |-> r.up.liquidated,
      draws |-> r.up.draws ]

\* no step call yet
NoStep(s) ==
    [ input |-> None,
      transition |-> [from |-> emit(s), action |-> None, to |-> emit(s), reward |-> 0],
      before |-> [time |-> s.dynamics.time, price |-> s.dynamics.price,
                  inv |-> s.inv, inv_terminal |-> s.inv_terminal,
                  wealth |-> s.wealth, dt |-> s.dynamics.dt,
                  price_initial |-> s.dynamics.price_initial,
                  execution_dynamics |-> s.dynamics.execution_dynamics],
      price_inc |-> 0,
      innovated |-> s.dynamics,
      executed |-> s.dynamics,
      ask |-> [tried |-> FALSE, result |-> None],
      bid |-> [tried |-> FALSE, result |-> None],
      inv_mid |-> s.inv,
      fills |-> [inv |-> s.inv, reward |-> s.reward, wealth |-> s.wealth],
      liquidated |-> FALSE,
      draws |-> << >> ]

NoTwin == None
\* no strategy objects
NoQuotes == None

\* the step call r takes effect; the observations returned before it are stale
Apply(r) ==
    /\ domain' = r.dom
    /\ last' = StepRecord(domain, r)
    /\ steps' = steps + 1
    /\ observed' = << >>
    /\ UNCHANGED quotes

\* a caller's domain.step(action) on a TraderDomain
TraderStep(actions, ws, max) ==
    /\ domain.kind = "Trader"
    /\ steps < max
    /\ \E action \in actions, w \in ws, u1 \in UDraws, u2 \in UDraws :
           Apply(TraderDomain_step(domain, action, w, u1, u2))

\* a caller's domain.step(action) on an AdversaryDomain
AdversaryStep(actions, ws, max) ==
    /\ domain.kind = "Adversary"
    /\ steps < max
    /\ \E action \in actions, w \in ws, u1 \in UDraws, u2 \in UDraws :
           Apply(AdversaryDomain_step(domain, action, w, u1, u2))

\* a caller's domain.step(action) on a ZeroSumDomain
ZeroSumStep(actions, ws, max) ==
    /\ domain.kind = "ZeroSum"
    /\ steps < max
    /\ \E action \in actions, w \in ws, u1 \in UDraws, u2 \in UDraws :
           Apply(ZeroSumDomain_step(domain, action, w, u1, u2))

\* ------------------------------------------------------------------ Spec: short episodes

\* dt = 0.4 passes time = 1 at the third step and dt = 1 reaches it at the
\* first; both make MAX_DRIFT * dt a whole number of ticks.  dt = 0.5 reaches
\* time = 1 exactly at the second step (Trader only: its price has no drift).
ShortParams ==
    { [dt |-> dt, price |-> 100, volatility |-> 1, scale |-> 1, decay |-> 1,
       kinds |-> Kinds,
       trader_etas |-> {0, 1}, adversary_etas |-> {0, 2}] : dt \in {400, 1000} }
    \cup
    { [dt |-> 500, price |-> 100, volatility |-> 1, scale |-> 1, decay |-> 1,
       kinds |-> {"Trader"},
       trader_etas |-> {1}, adversary_etas |-> {}] }

Init ==
    /\ domain \in UNION { FreshDomains(p) : p \in ShortParams }
    /\ last = NoStep(domain)
    /\ steps = 0
    /\ driver = "loop"
    /\ twin = NoTwin
    /\ observed = << >>
    /\ quotes = NoQuotes

Next ==
    \/ TraderStep(TraderActions, WDraws, MaxSteps) /\ UNCHANGED <<driver, twin>>
    \/ AdversaryStep(AdversaryActions, WDraws, MaxSteps) /\ UNCHANGED <<driver, twin>>
    \/ ZeroSumStep(ZeroSumActions, WDraws, MaxSteps) /\ UNCHANGED <<driver, twin>>

Spec == Init /\ [][Next]_vars

\* ------------------------------------------------------------------ SpecLong: long episodes

\* dt = 0.019: the 53rd step is the terminal one, so inv can reach either bound
\* before the episode ends.  The price is flat (volatility 0, drift 0) and the
\* quotes are constant.
LongParams ==
    { [dt |-> 19, price |-> 100, volatility |-> 0, scale |-> 10, decay |-> 1,
       kinds |-> Kinds,
       trader_etas |-> {1}, adversary_etas |-> {0}] }

LongWDraws == { 0 }
LongTraderActions == { <<0, 0>> }
LongAdversaryActions == { 1 }
LongZeroSumActions == { << <<0, 0>>, 1 >> }

InitLong ==
    /\ domain \in UNION { FreshDomains(p) : p \in LongParams }
    /\ last = NoStep(domain)
    /\ steps = 0
    /\ driver = "loop"
    /\ twin = NoTwin
    /\ observed = << >>
    /\ quotes = NoQuotes

NextLong ==
    \/ TraderStep(LongTraderActions, LongWDraws, MaxLongSteps) /\ UNCHANGED <<driver, twin>>
    \/ AdversaryStep(LongAdversaryActions, LongWDraws, MaxLongSteps) /\ UNCHANGED <<driver, twin>>
    \/ ZeroSumStep(LongZeroSumActions, LongWDraws, MaxLongSteps) /\ UNCHANGED <<driver, twin>>

SpecLong == InitLong /\ [][NextLong]_vars

\* ------------------------------------------------------------------ SpecDriver: the episode loop

\* step calls the loop may make before it is cut off
MaxDriverSteps == 6

\* dt = 0.25 and 0.5 reach time = 1 exactly, dt = 0.3 passes it; the adversary
\* actions are 0.5 (drift 0), so every dt gives whole ticks
DriverParams ==
    { [dt |-> dt, price |-> 100, volatility |-> 1, scale |-> 1, decay |-> 1,
       kinds |-> Kinds,
       trader_etas |-> {1}, adversary_etas |-> {0}] : dt \in {250, 300, 500} }

DriverAdversaryActions == { 1 }
DriverZeroSumActions == { << <<1, 1>>, 1 >> }

InitDriver ==
    /\ domain \in UNION { FreshDomains(p) : p \in DriverParams }
    /\ last = NoStep(domain)
    /\ steps = 0
    /\ driver = "loop"
    /\ twin = NoTwin
    /\ observed = << >>
    /\ quotes = NoQuotes

\* a test that never finds the transition terminal
Terminated_never(transition) == FALSE

\* simulate_once and the episode loops of the train_* programs:
\* loop { let t = domain.step(a); if t.terminated() { return ... } }
Terminated(transition) == transition.to.terminal

DriverReturn ==
    /\ driver' = IF Terminated(last'.transition) THEN "done" ELSE "loop"
    /\ UNCHANGED twin

NextDriver ==
    \/ driver = "loop" /\ TraderStep(TraderActions, WDraws, MaxDriverSteps) /\ DriverReturn
    \/ driver = "loop" /\ AdversaryStep(DriverAdversaryActions, WDraws, MaxDriverSteps) /\ DriverReturn
    \/ driver = "loop" /\ ZeroSumStep(DriverZeroSumActions, WDraws, MaxDriverSteps) /\ DriverReturn

\* The loop is straight-line code on one thread: while it has not returned it
\* makes its next step call.  Every step of NextDriver adds one to steps and a
\* step call is possible whenever the loop has not returned (and is not cut
\* off), so this is weak fairness of NextDriver.
LoopRuns == driver = "loop" /\ steps < MaxDriverSteps /\ steps' = steps + 1

SpecDriver == InitDriver /\ [][NextDriver]_vars /\ WF_steps(LoopRuns)

\* ------------------------------------------------------------------ SpecReplay: two runs

\* step calls per run in SpecReplay
MaxReplaySteps == 2

\* the step call made on the second run: the same action and the same draws
\* from the injected source (u1, u2); w2 is what thread_rng() hands to
\* innovate in that run
TwinOf(r) == [dom |-> r.dom, transition |-> r.transition]

InitReplay ==
    /\ domain \in UNION { FreshDomains(p) : p \in ShortParams }
    /\ last = NoStep(domain)
    /\ steps = 0
    /\ driver = "loop"
    /\ twin = [dom |-> domain, transition |-> last.transition]
    /\ observed = << >>
    /\ quotes = NoQuotes

TraderReplay ==
    /\ domain.kind = "Trader"
    /\ steps < MaxReplaySteps
    /\ \E action \in TraderActions, w \in WDraws, w2 \in WDraws, u1 \in UDraws, u2 \in UDraws :
           /\ Apply(TraderDomain_step(domain, action, w, u1, u2))
           /\ twin' = TwinOf(TraderDomain_step(twin.dom, action, w2, u1, u2))
    /\ UNCHANGED driver

AdversaryReplay ==
    /\ domain.kind = "Adversary"
    /\ steps < MaxReplaySteps
    /\ \E action \in AdversaryActions, w \in WDraws, w2 \in WDraws, u1 \in UDraws, u2 \in UDraws :
           /\ Apply(AdversaryDomain_step(domain, action, w, u1, u2))
           /\ twin' = TwinOf(AdversaryDomain_step(twin.dom, action, w2, u1, u2))
    /\ UNCHANGED driver

ZeroSumReplay ==
    /\ domain.kind = "ZeroSum"
    /\ steps < MaxReplaySteps
    /\ \E action \in ZeroSumActions, w \in WDraws, w2 \in WDraws, u1 \in UDraws, u2 \in UDraws :
           /\ Apply(ZeroSumDomain_step(domain, action, w, u1, u2))
           /\ twin' = TwinOf(ZeroSumDomain_step(twin.dom, action, w2, u1, u2))
    /\ UNCHANGED driver

NextReplay == TraderReplay \/ AdversaryReplay \/ ZeroSumReplay

SpecReplay == InitReplay /\ [][NextReplay]_vars

\* ------------------------------------------------------------------ SpecFill: fill models

\* step calls per run in SpecFill
MaxFillSteps == 2

\* Trader domains over fill models with scale 0, 1 and 3 and decay 0, 1 and 2
\* (per tick); dt = 0.5 and dt = 1 reach time = 1 at the second and at the
\* first step.  scale * dt ranges over 0, 0.5, 1, 1.5 and 3.
FillParams ==
    { [dt |-> dt, price |-> 100, volatility |-> 1, scale |-> scale, decay |-> decay,
       kinds |-> {"Trader"},
       trader_etas |-> {1}, adversary_etas |-> {}] :
          dt \in {500, 1000}, scale \in {0, 1, 3}, decay \in {0, 1, 2} }

\* offsets on both sides of the price, the Trader's being unclamped
FillTraderActions == { <<1, 1>>, <<-2, 3>>, <<4, -4>> }

\* the offsets match_prob is compared over
Offsets == -8..8

InitFill ==
    /\ domain \in UNION { FreshDomains(p) : p \in FillParams }
    /\ last = NoStep(domain)
    /\ steps = 0
    /\ driver = "loop"
    /\ twin = NoTwin
    /\ observed = << >>
    /\ quotes = NoQuotes

NextFill ==
    TraderStep(FillTraderActions, WDraws, MaxFillSteps) /\ UNCHANGED <<driver, twin>>

SpecFill == InitFill /\ [][NextFill]_vars

\* ------------------------------------------------------------------ SpecObserve: read-only calls

\* step calls per run, and read-only calls between two step calls, in SpecObserve
MaxObserveSteps == 2
MaxObserves == 3

\* dt = 0.5: the second step is the terminal one
ObserveParams ==
    { [dt |-> 500, price |-> 100, volatility |-> 1, scale |-> 1, decay |-> 1,
       kinds |-> Kinds,
       trader_etas |-> {1}, adversary_etas |-> {2}] }

ObserveAdversaryActions == { 1 }
ObserveZeroSumActions == { << <<1, 1>>, 1 >> }

InitObserve ==
    /\ domain \in UNION { FreshDomains(p) : p \in ObserveParams }
    /\ last = NoStep(domain)
    /\ steps = 0
    /\ driver = "loop"
    /\ twin = NoTwin
    /\ observed = << >>
    /\ quotes = NoQuotes

\* a read-only call c made on the domain, and what it returned
Returned(name, c) ==
    /\ Len(observed) < MaxObserves
    /\ domain' = c.dom
    /\ observed' = Append(observed, [call |-> name, result |-> c.result])
    /\ UNCHANGED <<last, steps, driver, twin, quotes>>

\* a caller's domain.emit()
EmitCall == Returned("emit", emit_call(domain))
\* a caller's domain.state_space()
StateSpaceCall == Returned("state_space", state_space(domain))
\* a caller's domain.action_space()
ActionSpaceCall == Returned("action_space", action_space(domain))

NextObserve ==
    \/ TraderStep(TraderActions, WDraws, MaxObserveSteps) /\ UNCHANGED <<driver, twin>>
    \/ AdversaryStep(ObserveAdversaryActions, WDraws, MaxObserveSteps) /\ UNCHANGED <<driver, twin>>
    \/ ZeroSumStep(ObserveZeroSumActions, WDraws, MaxObserveSteps) /\ UNCHANGED <<driver, twin>>
    \/ EmitCall
    \/ StateSpaceCall
    \/ ActionSpaceCall

SpecObserve == InitObserve /\ [][NextObserve]_vars

\* ------------------------------------------------------------------ SpecStrategy: baseline strategies

\* floating-point inputs, in units of 1/FloatOne: k in {-1.5, 0.75, 1, 1.5, 2, 3},
\* eta in {0, 0.5}, time in {0, 0.5}, price in {0, 1, 96}, inventory in {-2, 0, 3}
StrategyKs == { -384, 192, 256, 384, 512, 768 }
StrategyEtas == { 0, 128 }
StrategyTimes == { 0, 128 }
StrategyPrices == { 0, 256, 24576 }
StrategyInventories == { -512, 0, 768 }

\* a caller constructs the plain and the terminal-penalty strategy with the
\* same k (evaluate_inv_strategy.rs:20 constructs the plain one, adversary.rs:38
\* the penalised one)
InitStrategy ==
    /\ domain \in UNION { FreshDomains(p) : p \in ObserveParams }
    /\ last = NoStep(domain)
    /\ steps = 0
    /\ driver = "loop"
    /\ twin = NoTwin
    /\ observed = << >>
    /\ quotes \in { [ plain |-> LinearUtilityStrategy_new(k),
                       penalty |-> LinearUtilityTerminalPenaltyStrategy_new(k, eta),
                       call |-> None ] : k \in StrategyKs, eta \in StrategyEtas }

\* both strategies are asked for their offsets at the same (time, price, inventory)
ComputeCall ==
    /\ \E time \in StrategyTimes, price \in StrategyPrices, inventory \in StrategyInventories :
           quotes' = [quotes EXCEPT !.call = Some(
               [ time |-> time, price |-> price, inventory |-> inventory,
                 plain |-> LinearUtilityStrategy_compute(
                               quotes.plain, time, price, inventory),
                 penalty |-> LinearUtilityTerminalPenaltyStrategy_compute_f64(
                                 quotes.penalty, time, price, inventory) ])]
    /\ UNCHANGED <<domain, last, steps, driver, twin, observed>>

NextStrategy == ComputeCall

SpecStrategy == InitStrategy /\ [][NextStrategy]_vars

\* ------------------------------------------------------------------ SpecEpisodes: the driver programs

\* step calls an episode loop may make before it is cut off
MaxEpisodeSteps == 4

\* dt = 0.4 passes time = 1 at the third step, dt = 0.5 reaches it at the second
EpisodeParams ==
    { [dt |-> dt, price |-> 100, volatility |-> 1, scale |-> 1, decay |-> 1,
       kinds |-> Kinds,
       trader_etas |-> {0, 1}, adversary_etas |-> {0, 2}] : dt \in {400, 500} }

\* what the trader's policy hands back, (reservation shift, half spread), and
\* what the adversary's policy hands back (0.5: drift 0)
TraderPolicyOutputs == { <<0, 1>>, <<1, 1>> }
AdversaryPolicyOutputs == { 1 }

\* ua_ of train_trader.rs and train_zero_sum.rs
ua_(a) == << a[1] + a[2], a[2] - a[1] >>

\* Transition::replace_action and Transition::negate_reward as the drivers use them
replace_action(t, a) == [t EXCEPT !.action = a]
negate_reward(t) == [t EXCEPT !.reward = -@]

\* the loops of a driver program: the pre-training loop, the training loop and
\* the evaluation loop (simulate_once is an evaluation loop)
Phases == {"pretrain", "train", "evaluate"}
NextPhases(phase) == IF phase = "pretrain" THEN Phases ELSE {"train", "evaluate"}

\* a driver about to run the body of an episode loop on the domain its builder
\* has just constructed
EpisodeStart(phase, builder) ==
    [ phase |-> phase, at |-> "loop", builder |-> builder, handed |-> None,
      reward_sum |-> 0, read |-> None ]

InitEpisodes ==
    /\ domain \in UNION { FreshDomains(p) : p \in EpisodeParams }
    /\ last = NoStep(domain)
    /\ steps = 0
    /\ driver \in { EpisodeStart(phase, domain) : phase \in {"pretrain", "evaluate"} }
    /\ twin = NoTwin
    /\ observed = << >>
    /\ quotes = NoQuotes

\* the transitions the learners are handed for the transition t of a step
\* called with the policy outputs a:
\*   pre-training: agent.critic.handle_transition(&t), and in train_zero_sum
\*     trader.critic.handle_transition(&t); adversary.critic.handle_transition(&t)
\*   training: agent.handle_transition(&t) with the action replaced in
\*     train_trader, and in train_zero_sum
\*     trader.handle_transition(&t.clone().replace_action((a.0[0], a.0[1])));
\*     adversary.handle_transition(&t.replace_action(a.1).negate_reward())
\*   evaluation: none
Handed(kind, phase, t, a) ==
    IF phase = "evaluate" THEN None
    ELSE IF kind = "ZeroSum"
    THEN IF phase = "pretrain"
         THEN Some([trader |-> t, adversary |-> t])
         ELSE Some([trader |-> replace_action(t, a[1]),
                    adversary |-> negate_reward(replace_action(t, a[2]))])
    ELSE IF kind = "Trader" /\ phase = "train"
    THEN Some([agent |-> replace_action(t, a)])
    ELSE Some([agent |-> t])

\* one pass through the body of an episode loop: the step call r, called with
\* the policy outputs a, takes effect, the learners are handed its transition,
\* an evaluation loop adds t.reward to its reward_sum, and if t.terminated()
\* the loop is left, an evaluation loop reading domain.wealth and
\* domain.inv_terminal on its way out
LoopBody(r, a) ==
    /\ Apply(r)
    /\ UNCHANGED twin
    /\ driver' = [driver EXCEPT
           !.at = IF Terminated(r.transition) THEN "terminated" ELSE "loop",
           !.handed = Handed(domain.kind, driver.phase, r.transition, a),
           !.reward_sum = IF driver.phase = "evaluate" THEN @ + r.transition.reward ELSE @,
           !.read = IF Terminated(r.transition) /\ driver.phase = "evaluate"
                    THEN Some(<< r.dom.wealth, r.dom.inv_terminal >>)
                    ELSE None]

TraderEpisodeStep ==
    /\ domain.kind = "Trader"
    /\ driver.at = "loop"
    /\ steps < MaxEpisodeSteps
    /\ \E a \in TraderPolicyOutputs, w \in WDraws, u1 \in UDraws, u2 \in UDraws :
           LoopBody(TraderDomain_step(domain, ua_(a), w, u1, u2), a)

AdversaryEpisodeStep ==
    /\ domain.kind = "Adversary"
    /\ driver.at = "loop"
    /\ steps < MaxEpisodeSteps
    /\ \E a \in AdversaryPolicyOutputs, w \in WDraws, u1 \in UDraws, u2 \in UDraws :
           LoopBody(AdversaryDomain_step(domain, a, w, u1, u2), a)

ZeroSumEpisodeStep ==
    /\ domain.kind = "ZeroSum"
    /\ driver.at = "loop"
    /\ steps < MaxEpisodeSteps
    /\ \E p \in TraderPolicyOutputs, q \in AdversaryPolicyOutputs,
          w \in WDraws, u1 \in UDraws, u2 \in UDraws :
           LoopBody(ZeroSumDomain_step(domain, << ua_(p), q >>, w, u1, u2), << ua_(p), q >>)

\* the loop was left: the next episode of the enclosing for loop constructs
\* its own domain
NextEpisode ==
    /\ driver.at = "terminated"
    /\ \E phase \in NextPhases(driver.phase) :
           driver' = EpisodeStart(phase, driver.builder)
    /\ domain' = driver.builder
    /\ last' = NoStep(driver.builder)
    /\ steps' = 0
    /\ UNCHANGED <<twin, observed, quotes>>

NextEpisodes ==
    \/ TraderEpisodeStep
    \/ AdversaryEpisodeStep
    \/ ZeroSumEpisodeStep
    \/ NextEpisode

SpecEpisodes == InitEpisodes /\ [][NextEpisodes]_vars

\* ------------------------------------------------------------------ what a step call did

Stepped == steps > 0
AskFilled == IsSome(last.ask.result)
BidFilled == IsSome(last.bid.result)
\* draws taken by fill attempts in the latest step call
FillDraws == Len(SelectSeq(last.draws, LAMBDA d : d.by = "try_execute"))
\* the action offsets of the latest Trader step call
ActionAsk == last.transition.action[1]
ActionBid == last.transition.action[2]
\* the normal draw innovate took in the latest step call
InnovateDraw == last.draws[1].w
\* the drift of the price process after the latest step call
Drift == domain.dynamics.price_dynamics.drift
\* the fill model of the domain's engine
FillModel == domain.dynamics.execution_dynamics
\* the probabilities handed to gen_bool in the latest step call
FillProbs == { last.draws[i].p : i \in { j \in DOMAIN last.draws : last.draws[j].by = "try_execute" } }
\* the offsets the Adversary domain's internal strategy gives at the start of
\* the latest step call: sp / 2 -+ 2 * inv * eta with sp = 2 / k + eta
StrategyOffsets ==
    LET st == Unwrap(domain.inv_strategy)
        half == ((2 \div st.k) + st.eta) \div 2
    IN  << half - 2 * last.before.inv * st.eta, half + 2 * last.before.inv * st.eta >>
\* the prices quoted in the latest step call: the Trader's offsets from the
\* price before the innovation, the strategy's offsets from that price in the
\* Adversary domain, the clamped offsets from the price after the innovation
\* in the ZeroSum domain
QuotedAsk ==
    IF domain.kind = "Trader" THEN last.before.price + last.input[1]
    ELSE IF domain.kind = "Adversary" THEN last.before.price + StrategyOffsets[1]
    ELSE last.before.price + last.price_inc + Max(last.input[1][1], 0)
QuotedBid ==
    IF domain.kind = "Trader" THEN last.before.price - last.input[2]
    ELSE IF domain.kind = "Adversary" THEN last.before.price - StrategyOffsets[2]
    ELSE last.before.price + last.price_inc - Max(last.input[1][2], 0)
\* the step call took the domain from time < 1 to time >= 1
CrossedHorizon == Stepped /\ last.before.time < TimeOne /\ domain.dynamics.time >= TimeOne

\* ------------------------------------------------------------------ claims

\* C1: in each domain, from inv = 0 and for every sequence of step calls, inv is
\* within [-50, 50] in every reachable state: at the start of a step, between
\* the ask attempt and the bid attempt, after the fills and after the step.
C1_InvWithinBounds ==
    /\ domain.inv \in -50..50
    /\ last.before.inv \in -50..50
    /\ last.inv_mid \in -50..50
    /\ last.fills.inv \in -50..50

\* a step of the Adversary domain that starts with inv = 50 and ends at inv = 50
C1_Witness ==
    /\ Stepped
    /\ domain.kind = "Adversary"
    /\ last.before.inv = 50
    /\ last.fills.inv = 50

\* C2: the step call whose innovation makes time >= 1 liquidates in that same
\* call: wealth grows by (post-innovation price * inventory after the fills),
\* inv_terminal is that inventory and inv is 0; a step that leaves time < 1
\* changes none of the three.
C2_TerminalLiquidation ==
    Stepped =>
        IF domain.dynamics.time >= TimeOne
        THEN /\ last.liquidated
             /\ domain.wealth = last.fills.wealth
                                + (last.before.price + last.price_inc) * last.fills.inv
             /\ domain.inv_terminal = last.fills.inv
             /\ domain.inv = 0
        ELSE /\ ~last.liquidated
             /\ domain.wealth = last.fills.wealth
             /\ domain.inv_terminal = last.before.inv_terminal
             /\ domain.inv = last.fills.inv

\* the step that crosses time = 1 while holding inventory
C2_Witness == CrossedHorizon /\ last.fills.inv /= 0 /\ last.price_inc /= 0

\* C3 as amended: the pre-penalty reward of a Trader step is
\* inv_before * price_increment + (ask_offset - price_increment if the ask
\* filled) + (bid_offset + price_increment if the bid filled), the offsets
\* being those of the action; nothing of the previous reward remains.
C3_RewardDecomposition ==
    (Stepped /\ domain.kind = "Trader") =>
        last.fills.reward =
            last.before.inv * last.price_inc
            + (IF AskFilled THEN ActionAsk - last.price_inc ELSE 0)
            + (IF BidFilled THEN ActionBid + last.price_inc ELSE 0)

\* C3 as stated: the fills add the action's own offsets
C3_Original ==
    (Stepped /\ domain.kind = "Trader") =>
        last.fills.reward =
            last.before.inv * last.price_inc
            + (IF AskFilled THEN ActionAsk ELSE 0)
            + (IF BidFilled THEN ActionBid ELSE 0)

\* a Trader step with inventory, a price move and both sides filled
C3_Witness ==
    /\ Stepped
    /\ domain.kind = "Trader"
    /\ last.before.inv /= 0
    /\ last.price_inc /= 0
    /\ AskFilled
    /\ BidFilled

\* C5: at inv = -50 no ask attempt is made and at inv = 50 no bid attempt is
\* made: try_execute is not called for that side, no draw is taken for it, and
\* inv, reward and wealth get nothing from it; inv is never clamped after a
\* fill (it is exactly the fills' sum).
C5_SkipAtBound ==
    Stepped =>
        /\ last.before.inv = -50 =>
               /\ ~last.ask.tried
               /\ ~AskFilled
               /\ last.inv_mid = -50
               /\ FillDraws = (IF last.bid.tried THEN 1 ELSE 0)
               /\ ~BidFilled => /\ last.fills.inv = last.before.inv
                                /\ last.fills.wealth = last.before.wealth
        /\ last.inv_mid = 50 =>
               /\ ~last.bid.tried
               /\ ~BidFilled
               /\ last.fills.inv = 50
               /\ FillDraws = (IF last.ask.tried THEN 1 ELSE 0)
               /\ ~AskFilled => /\ last.fills.inv = last.before.inv
                                /\ last.fills.wealth = last.before.wealth
        /\ last.inv_mid = last.before.inv - (IF AskFilled THEN 1 ELSE 0)
        /\ last.fills.inv = last.inv_mid + (IF BidFilled THEN 1 ELSE 0)

\* a ZeroSum step that starts at inv = -50, and whose bid fills
C5_Witness ==
    /\ Stepped
    /\ domain.kind = "ZeroSum"
    /\ last.before.inv = -50
    /\ BidFilled

\* C6: the terminal Trader step subtracts eta * inv^2, inv being the inventory
\* after that step's fills and before the reset; a non-terminal step subtracts
\* nothing; the transition's reward is the reward after the penalty.
C6_TerminalPenalty ==
    (Stepped /\ domain.kind = "Trader") =>
        /\ domain.reward =
               last.fills.reward
               - (IF domain.dynamics.time >= TimeOne
                  THEN domain.eta * last.fills.inv * last.fills.inv ELSE 0)
        /\ last.transition.reward = domain.reward

\* a terminal Trader step with eta > 0 and inventory 2 or more
C6_Witness ==
    /\ CrossedHorizon
    /\ domain.kind = "Trader"
    /\ domain.eta > 0
    /\ last.fills.inv * last.fills.inv > 1

\* C7: an observation is [time, clamp(inv, -50, 50)], terminal iff time >= 1;
\* a transition's from is the observation before the step's state update and
\* its to the observation after it.
C7_Observations ==
    /\ last.transition.to =
           [state |-> << domain.dynamics.time, Max(-50, Min(50, domain.inv)) >>,
            terminal |-> domain.dynamics.time >= TimeOne]
    /\ last.transition.from =
           [state |-> << last.before.time, Max(-50, Min(50, last.before.inv)) >>,
            terminal |-> last.before.time >= TimeOne]

\* a step that starts with inventory before time = 1 and ends exactly at
\* time = 1
C7_Witness ==
    /\ Stepped
    /\ domain.dynamics.time = TimeOne
    /\ last.before.inv /= 0
    /\ last.transition.to.terminal
    /\ ~last.transition.from.terminal

\* C8 as stated: every observation has its time in [0, 1] and its inventory
\* in [-50, 50]
C8_ObservationInStateSpace ==
    /\ last.transition.to.state[1] \in 0..TimeOne
    /\ last.transition.to.state[2] \in -50..50
    /\ last.transition.from.state[1] \in 0..TimeOne
    /\ last.transition.from.state[2] \in -50..50

\* C10 as stated: every draw of a step call comes from the source injected at
\* construction, one by innovate and one per fill attempt
C10_DrawsFromInjectedSource ==
    Stepped =>
        /\ Len(last.draws) = 1 + (IF last.ask.tried THEN 1 ELSE 0)
                               + (IF last.bid.tried THEN 1 ELSE 0)
        /\ last.draws[1].by = "innovate"
        /\ \A i \in DOMAIN last.draws : last.draws[i].from = domain.dynamics.rng

C9_ReplayIdentical ==
    /\ twin.dom = domain
    /\ twin.transition = last.transition

\* C11: innovate adds exactly dt to time and exactly the increment it returns
\* to price and leaves dt, price_initial and the fill model alone; the fill
\* attempts leave the whole engine as innovate left it, filled or not; so a
\* step of any domain advances time by exactly dt.
C11_EngineFrame ==
    Stepped =>
        /\ last.innovated.time = last.before.time + last.before.dt
        /\ last.innovated.price = last.before.price + last.price_inc
        /\ last.innovated.dt = last.before.dt
        /\ last.innovated.price_initial = last.before.price_initial
        /\ last.innovated.execution_dynamics = last.before.execution_dynamics
        /\ last.executed = last.innovated
        /\ domain.dynamics = last.executed
        /\ domain.dynamics.time = last.before.time + last.before.dt

\* a step with a price move in which one side filled and the other was tried
\* and did not fill
C11_Witness ==
    /\ Stepped
    /\ last.price_inc /= 0
    /\ AskFilled
    /\ last.bid.tried
    /\ ~BidFilled

\* C12: an Adversary step clamps its action to [0, 1], assigns the drift
\* 5 * (2a - 1) of the clamped a, which is within [-5, 5], before it calls
\* innovate (the increment of that call is drift * dt + volatility * draw), and
\* reports the clamped action in the transition.
C12_AdversaryClamp ==
    (Stepped /\ domain.kind = "Adversary") =>
        /\ last.transition.action = Max(0, Min(ActOne, last.input))
        /\ last.transition.action \in 0..ActOne
        /\ Drift * ActOne = 5 * (2 * last.transition.action - ActOne)
        /\ Drift \in -5..5
        /\ last.innovated.price_dynamics.drift = Drift
        /\ last.price_inc = (Drift * last.before.dt) \div TimeOne
                             + domain.dynamics.price_dynamics.volatility * InnovateDraw

\* an Adversary step called with 1.5 (drift 5, increment 2 + 1) right after
\* one called with -0.5 (drift -5, increment -2 - 1)
C12_Witness ==
    /\ steps = 2
    /\ domain.kind = "Adversary"
    /\ last.before.price = last.before.price_initial - 3
    /\ last.input = 3
    /\ last.transition.action = ActOne
    /\ Drift = 5
    /\ last.price_inc = 3

C14_LiquidationFrame ==
    (Stepped /\ domain.kind \in {"Adversary", "ZeroSum"}) =>
        /\ domain.reward = last.fills.reward
        /\ last.transition.reward = last.fills.reward
        /\ domain.dynamics = last.executed
        /\ last.liquidated =>
               /\ domain.wealth = last.fills.wealth
                                  + last.executed.price * last.fills.inv
               /\ domain.inv_terminal = last.fills.inv
               /\ domain.inv = 0

\* a terminal Adversary step that liquidates an inventory, the internal
\* strategy having eta > 0
C14_Witness ==
    /\ Stepped
    /\ domain.kind = "Adversary"
    /\ last.liquidated
    /\ last.fills.inv /= 0
    /\ Unwrap(domain.inv_strategy).eta > 0
    /\ domain.inv_terminal = last.fills.inv

\* C15 as stated: in every ZeroSum step the drift assigned to the price process
\* is within [-10, 10], an adversary action outside [0, 1] being clamped
C15_ZeroSumDriftBounded ==
    (Stepped /\ domain.kind = "ZeroSum") =>
        /\ Drift \in -10..10
        /\ Drift * ActOne = 10 * (2 * Max(0, Min(ActOne, last.input[2])) - ActOne)

\* C16 as amended: the reward a ZeroSum step reports is inv_before *
\* price_increment plus, for each side that filled in that step, the trader's
\* offset for that side clamped at 0 (the quotes are set from the price after
\* the innovation, so a fill returns exactly the clamped offset).
C16_ZeroSumReward ==
    (Stepped /\ domain.kind = "ZeroSum") =>
        /\ AskFilled => Unwrap(last.ask.result) = Max(last.input[1][1], 0)
        /\ BidFilled => Unwrap(last.bid.result) = Max(last.input[1][2], 0)
        /\ last.transition.reward =
               last.before.inv * last.price_inc
               + (IF AskFilled THEN Max(last.input[1][1], 0) ELSE 0)
               + (IF BidFilled THEN Max(last.input[1][2], 0) ELSE 0)

\* C16 as stated: the reward of every ZeroSum step is inv_before *
\* price_increment
C16_Original ==
    (Stepped /\ domain.kind = "ZeroSum") =>
        last.transition.reward = last.before.inv * last.price_inc

\* a ZeroSum step that starts with inventory, called with the offsets
\* (-1, 2), in which both sides fill
C16_Witness ==
    /\ Stepped
    /\ domain.kind = "ZeroSum"
    /\ last.before.inv /= 0
    /\ last.price_inc /= 0
    /\ last.input[1] = <<-1, 2>>
    /\ AskFilled
    /\ BidFilled
    /\ last.transition.reward = last.before.inv * last.price_inc + 2

\* C17: with scale = 0 a Trader episode has no fills, whatever the actions and
\* the price path: every fill attempt is handed probability 0 and fails, and
\* inv, wealth, reward and inv_terminal are 0 after every step, the terminal
\* one included.
C17_NoFillsAtZeroScale ==
    (domain.kind = "Trader" /\ FillModel.scale = 0) =>
        /\ FillProbs \subseteq {0}
        /\ ~AskFilled
        /\ ~BidFilled
        /\ domain.inv = 0
        /\ domain.wealth = 0
        /\ domain.reward = 0
        /\ last.transition.reward = 0
        /\ domain.inv_terminal = 0

\* the terminal step of a two-step Trader episode with scale = 0, called with
\* the offsets (-2, 3) after a price move: both sides were tried
C17_Witness ==
    /\ domain.kind = "Trader"
    /\ FillModel.scale = 0
    /\ FillModel.decay > 0
    /\ steps = 2
    /\ CrossedHorizon
    /\ last.liquidated
    /\ last.input = <<-2, 3>>
    /\ last.ask.tried
    /\ last.bid.tried
    /\ FillProbs = {0}

\* C20: for a fill model with scale >= 0, decay >= 0 and dt > 0, match_prob is
\* within [0, 1] at every offset, does not increase with the offset, and is
\* clamp(scale * dt, 0, 1) at offset 0; every probability handed to gen_bool
\* by try_execute is within [0, 1].
C20_MatchProb ==
    /\ \A o \in Offsets : match_prob(FillModel, o) \in 0..ProbOne
    /\ \A o1, o2 \in Offsets :
           o1 <= o2 => match_prob(FillModel, o1) >= match_prob(FillModel, o2)
    /\ match_prob(FillModel, 0)
           = Max(0, Min(ProbOne, FillModel.scale * FillModel.dt * FixOne))
    /\ FillProbs \subseteq 0..ProbOne

\* a step on a fill model with scale * dt = 1.5: one attempt was handed the
\* clamped probability 1 and the other a probability strictly inside (0, 1)
C20_Witness ==
    /\ Stepped
    /\ FillModel.scale * FillModel.dt > TimeOne
    /\ FillModel.decay > 0
    /\ ProbOne \in FillProbs
    /\ \E p \in FillProbs : 0 < p /\ p < ProbOne
    /\ match_prob(FillModel, -8) > match_prob(FillModel, 8)

\* C18: only step mutates a domain: a transition that is not a step call (emit,
\* state_space, action_space) leaves the engine, inv, inv_terminal, reward and
\* wealth as they were, and the emit calls made with no step between them all
\* return the same observation, that of the domain's current state.
C18_OnlyStepMutates ==
    /\ [][steps' = steps => domain' = domain]_vars
    /\ [](\A i \in DOMAIN observed :
              observed[i].call = "emit" => observed[i].result = emit(domain))
    /\ [](\A i, j \in DOMAIN observed :
              observed[i].call = observed[j].call => observed[i].result = observed[j].result)

\* after the terminal step of a run that ends with inventory and a reward:
\* emit, state_space and emit again
C18_Witness ==
    /\ steps = 2
    /\ domain.inv_terminal /= 0
    /\ domain.reward /= 0
    /\ Len(observed) = 3
    /\ observed[1].call = "emit"
    /\ observed[2].call = "state_space"
    /\ observed[3].call = "emit"
    /\ observed[3].result = observed[1].result
    /\ observed[3].result.terminal

\* C19 as stated: with eta = 0 the terminal-penalty strategy returns, at every
\* (time, price, inventory) and for every k /= 0, the pair the plain strategy
\* returns for the same k, (1/k, 1/k)
C19_PenaltyFreeEqualsPlain ==
    (IsSome(quotes.call) /\ quotes.penalty.eta = 0) =>
        /\ Unwrap(quotes.call).penalty = Unwrap(quotes.call).plain
        /\ Unwrap(quotes.call).plain
               = << FlDiv(FloatOne, quotes.plain.k), FlDiv(FloatOne, quotes.plain.k) >>

\* C21: a step draws for innovate first, then for the ask attempt, then for the
\* bid attempt, each attempt at the offset of its quote from the price after
\* the innovation; when both fill, inv is as before the step (before any
\* terminal reset) and wealth has grown by ask_price - bid_price; the bid guard
\* inv < 50 sees the inventory after the ask fill, so from inv = 50 a bid fills
\* only after an ask fill of the same step.
C21_StepOrder ==
    Stepped =>
        /\ last.draws[1].by = "innovate"
        /\ Len(last.draws) = 1 + (IF last.ask.tried THEN 1 ELSE 0)
                               + (IF last.bid.tried THEN 1 ELSE 0)
        /\ last.ask.tried =>
               /\ last.draws[2].via = "try_execute_ask"
               /\ last.draws[2].p = match_prob(FillModel, QuotedAsk - last.executed.price)
        /\ last.bid.tried =>
               /\ last.draws[Len(last.draws)].via = "try_execute_bid"
               /\ last.draws[Len(last.draws)].p
                      = match_prob(FillModel, last.executed.price - QuotedBid)
        /\ last.ask.tried <=> last.before.inv > -50
        /\ last.inv_mid = last.before.inv - (IF AskFilled THEN 1 ELSE 0)
        /\ last.bid.tried <=> last.inv_mid < 50
        /\ (AskFilled /\ BidFilled) =>
               /\ last.fills.inv = last.before.inv
               /\ last.fills.wealth = last.before.wealth + QuotedAsk - QuotedBid
        /\ (last.before.inv = 50 /\ BidFilled) => AskFilled

\* a ZeroSum step that starts at inv = 50 in which the ask fills and then the
\* bid fills
C21_Witness ==
    /\ Stepped
    /\ domain.kind = "ZeroSum"
    /\ last.before.inv = 50
    /\ AskFilled
    /\ BidFilled
    /\ last.fills.inv = 50

\* C22: a Trader step quotes ask_price = price_before + ask_offset and
\* bid_price = price_before - bid_offset; the offset handed to the fill model,
\* and returned on a fill, is measured from the price after the innovation:
\* ask_offset - price_increment for the ask, bid_offset + price_increment for
\* the bid; an ask fill adds ask_price to wealth and a bid fill takes bid_price
\* from it.
C22_TraderQuotes ==
    (Stepped /\ domain.kind = "Trader") =>
        LET ask_price == last.before.price + ActionAsk
            bid_price == last.before.price - ActionBid
            price_after == last.before.price + last.price_inc
        IN  /\ last.executed.price = price_after
            /\ last.ask.tried =>
                   last.draws[2].p = match_prob(FillModel, ActionAsk - last.price_inc)
            /\ last.bid.tried =>
                   last.draws[Len(last.draws)].p
                       = match_prob(FillModel, ActionBid + last.price_inc)
            /\ AskFilled => /\ Unwrap(last.ask.result) = ask_price - price_after
                            /\ Unwrap(last.ask.result) = ActionAsk - last.price_inc
            /\ BidFilled => /\ Unwrap(last.bid.result) = price_after - bid_price
                            /\ Unwrap(last.bid.result) = ActionBid + last.price_inc
            /\ last.fills.wealth = last.before.wealth
                                   + (IF AskFilled THEN ask_price ELSE 0)
                                   - (IF BidFilled THEN bid_price ELSE 0)

\* a Trader step called with the offsets (0, 2) in which the price falls and
\* both sides fill: the ask at offset 1, the bid at offset 1
C22_Witness ==
    /\ Stepped
    /\ domain.kind = "Trader"
    /\ last.input = <<0, 2>>
    /\ last.price_inc = -1
    /\ AskFilled
    /\ BidFilled
    /\ Unwrap(last.ask.result) = 1
    /\ Unwrap(last.bid.result) = 1

\* C23: a ZeroSum step replaces each trader offset by max(0, offset) and sets
\* the quotes from the price after the innovation, so the offset handed to the
\* fill model, returned on a fill and added to the reward is the clamped action
\* offset and is never negative; the transition reports the action pair as it
\* was passed in.
C23_ZeroSumClamp ==
    (Stepped /\ domain.kind = "ZeroSum") =>
        LET ask_offset == Max(last.input[1][1], 0)
            bid_offset == Max(last.input[1][2], 0)
            price_after == last.before.price + last.price_inc
        IN  /\ last.executed.price = price_after
            /\ last.ask.tried => last.draws[2].p = match_prob(FillModel, ask_offset)
            /\ last.bid.tried =>
                   last.draws[Len(last.draws)].p = match_prob(FillModel, bid_offset)
            /\ AskFilled => /\ Unwrap(last.ask.result) = ask_offset
                            /\ Unwrap(last.ask.result) >= 0
            /\ BidFilled => /\ Unwrap(last.bid.result) = bid_offset
                            /\ Unwrap(last.bid.result) >= 0
            /\ last.fills.reward - last.before.inv * last.price_inc
                   = (IF AskFilled THEN ask_offset ELSE 0)
                     + (IF BidFilled THEN bid_offset ELSE 0)
            /\ last.fills.wealth - last.before.wealth
                   = (IF AskFilled THEN price_after + ask_offset ELSE 0)
                     - (IF BidFilled THEN price_after - bid_offset ELSE 0)
            /\ last.transition.action = last.input

\* a ZeroSum step called with the offsets (-1, 2) in which the price moves and
\* both sides fill: the ask returns 0, the bid 2, and the transition still
\* carries the offset -1
C23_Witness ==
    /\ Stepped
    /\ domain.kind = "ZeroSum"
    /\ last.price_inc /= 0
    /\ AskFilled
    /\ BidFilled
    /\ Unwrap(last.ask.result) = 0
    /\ Unwrap(last.bid.result) = 2
    /\ last.transition.action[1] = <<-1, 2>>

\* C24 as stated: the offsets the terminal-penalty strategy returns satisfy, at
\* every (time, price, inventory), ask_offset + bid_offset = 2/k + eta and
\* bid_offset - ask_offset = 4 * inventory * eta
C24_StrategyIdentities ==
    IsSome(quotes.call) =>
        LET c == Unwrap(quotes.call)
            st == quotes.penalty
        IN  /\ FlAdd(c.penalty[1], c.penalty[2])
                   = FlAdd(FlDiv(2 * FloatOne, st.k), st.eta)
            /\ FlSub(c.penalty[2], c.penalty[1])
                   = FlMul(FlMul(4 * FloatOne, c.inventory), st.eta)

\* C25: every episode loop of the drivers starts on a domain its builder has
\* just constructed, calls step only while no transition of that domain has
\* been terminal, leaves the loop at the first terminal transition, and reads
\* wealth and inv_terminal only after that transition; what follows a
\* finished loop is a new episode on a new domain.
C25_EpisodeLoop ==
    /\ [](steps = 0 => /\ domain = driver.builder
                        /\ domain.dynamics.time = 0
                        /\ domain.inv = 0
                        /\ domain.wealth = 0)
    /\ [](driver.at = "terminated" <=> (Stepped /\ last.transition.to.terminal))
    /\ [](IsSome(driver.read) =>
              /\ driver.at = "terminated"
              /\ last.transition.to.terminal
              /\ Unwrap(driver.read) = << domain.wealth, domain.inv_terminal >>)
    /\ [][IF steps' = steps + 1
          THEN /\ ~is_terminal(domain)
               /\ Stepped => ~last.transition.to.terminal
          ELSE /\ last.transition.to.terminal
               /\ steps' = 0
               /\ domain' = driver.builder]_vars

\* an evaluation episode that follows an earlier episode has left its loop at
\* the third step, the one that passed time = 1, and has read the wealth and
\* the inventory that step liquidated
C25_Witness ==
    /\ driver.phase = "evaluate"
    /\ driver.at = "terminated"
    /\ steps = 3
    /\ domain.dynamics.time > TimeOne
    /\ IsSome(driver.read)
    /\ domain.inv_terminal /= 0
    /\ Unwrap(driver.read)[2] = domain.inv_terminal

\* C26 as stated: whenever the ZeroSum driver hands a transition to its two
\* learners, in the pre-training loop and in the training loop, the reward the
\* adversary learner gets is the negation of the reward the trader learner gets
C26_RewardNegated ==
    (domain.kind = "ZeroSum" /\ IsSome(driver.handed)) =>
        Unwrap(driver.handed).adversary.reward = -Unwrap(driver.handed).trader.reward

\* the marked-to-market value wealth + inv * price: now, after the fills of the
\* latest step (before any liquidation), and before that step
Value == domain.wealth + domain.inv * domain.dynamics.price
ValueAfterFills == last.fills.wealth + last.fills.inv * last.executed.price
ValueBefore == last.before.wealth + last.before.inv * last.before.price

TraderAfterInnovate ==
    [ kind |-> "Trader",
      dynamics |-> last.innovated,
      inv |-> last.before.inv,
      inv_terminal |-> last.before.inv_terminal,
      reward |-> last.before.inv * last.price_inc,
      wealth |-> last.before.wealth,
      eta |-> 0,
      inv_strategy |-> None ]

\* the Trader's do_executions ex had the fills of the latest step call
SameFills(ex) ==
    /\ IsSome(ex.ask.result) <=> AskFilled
    /\ IsSome(ex.bid.result) <=> BidFilled

\* the latest step call negated the reward of the Trader's do_executions ex
\* and left inv, wealth and, after the terminal branch, inv_terminal as the
\* Trader's code leaves them
NegatesTrader(ex, liquidated) ==
    /\ last.fills.reward = -ex.dom.reward
    /\ last.fills.inv = ex.dom.inv
    /\ last.fills.wealth = ex.dom.wealth
    /\ last.liquidated <=> is_terminal(ex.dom)
    /\ domain.inv = liquidated.inv
    /\ domain.wealth = liquidated.wealth
    /\ domain.inv_terminal = liquidated.inv_terminal

\* C28: an Adversary step reports the negation of the reward the Trader's code
\* accumulates before its penalty from the same state, quotes, price increment
\* and fills, and updates inv, wealth and inv_terminal as the Trader's code
\* does; the rewards an Adversary episode has reported so far sum to
\* -(wealth + inv * price).
C28_AdversaryNegatesTrader ==
    (Stepped /\ domain.kind = "Adversary") =>
        /\ \E u1 \in UDraws, u2 \in UDraws :
               SameFills(TraderDomain_do_executions(
                             TraderAfterInnovate, QuotedAsk, QuotedBid, u1, u2))
        /\ \A u1 \in UDraws, u2 \in UDraws :
               SameFills(TraderDomain_do_executions(
                             TraderAfterInnovate, QuotedAsk, QuotedBid, u1, u2))
                   => NegatesTrader(
                          TraderDomain_do_executions(
                              TraderAfterInnovate, QuotedAsk, QuotedBid, u1, u2),
                          IF last.liquidated
                          THEN TraderDomain_liquidate(
                                   TraderDomain_do_executions(
                                       TraderAfterInnovate, QuotedAsk, QuotedBid, u1, u2).dom)
                          ELSE TraderDomain_do_executions(
                                   TraderAfterInnovate, QuotedAsk, QuotedBid, u1, u2).dom)
        /\ last.transition.reward = last.fills.reward
        /\ last.transition.reward = -(Value - ValueBefore)
        /\ driver.phase = "evaluate" => driver.reward_sum = -Value

\* an Adversary evaluation episode with eta > 0 has ended at its third step,
\* which started with inventory, saw the price move and had a fill: its
\* rewards sum to minus the wealth
C28_Witness ==
    /\ domain.kind = "Adversary"
    /\ Unwrap(domain.inv_strategy).eta > 0
    /\ driver.phase = "evaluate"
    /\ steps = 3
    /\ last.transition.to.terminal
    /\ last.before.inv /= 0
    /\ last.price_inc /= 0
    /\ AskFilled
    /\ domain.inv_terminal /= 0
    /\ driver.reward_sum = -domain.wealth
    /\ driver.reward_sum /= 0

\* C29: in every domain inv_terminal is 0 while time < 1; an observation that
\* is terminal carries the inventory 0, the inventory the step held before
\* liquidating being kept in inv_terminal only; a step whose observation is
\* not terminal changes inv by -1, 0 or +1, and inv is a whole number.
C29_TerminalInventory ==
    /\ domain.dynamics.time < TimeOne => domain.inv_terminal = 0
    /\ domain.inv \in Int
    /\ emit(domain).terminal => emit(domain).state[2] = 0
    /\ Stepped =>
           /\ last.transition.from.terminal => last.transition.from.state[2] = 0
           /\ last.transition.to.terminal =>
                  /\ last.transition.to.state[2] = 0
                  /\ last.liquidated
                  /\ domain.inv = 0
                  /\ domain.inv_terminal = last.fills.inv
           /\ ~last.transition.to.terminal =>
                  /\ domain.inv - last.before.inv \in {-1, 0, 1}
                  /\ domain.inv = last.fills.inv
                  /\ domain.inv_terminal = 0

\* an Adversary step has passed time = 1 holding inventory: the observation
\* it returned carries 0 and inv_terminal holds what was liquidated
C29_Witness ==
    /\ domain.kind = "Adversary"
    /\ CrossedHorizon
    /\ last.before.inv_terminal = 0
    /\ last.fills.inv /= 0
    /\ domain.inv_terminal = last.fills.inv
    /\ last.transition.to.terminal
    /\ last.transition.to.state[2] = 0

\* C30: time never decreases and a domain whose observation is terminal stays
\* terminal; a step called on a terminal domain still adds dt to time and the
\* increment to price, attempts both fills from inv = 0, and liquidates again:
\* inv_terminal becomes the inventory those fills left and inv ends at 0.
C30_TerminalAbsorbing ==
    /\ [][/\ domain'.dynamics.time >= domain.dynamics.time
          /\ emit(domain).terminal => emit(domain').terminal]_vars
    /\ []((Stepped /\ last.transition.from.terminal) =>
              /\ last.transition.to.terminal
              /\ domain.dynamics.time = last.before.time + last.before.dt
              /\ last.draws[1].by = "innovate"
              /\ domain.dynamics.price = last.before.price + last.price_inc
              /\ last.before.inv = 0
              /\ last.ask.tried
              /\ last.bid.tried
              /\ last.fills.inv = (IF BidFilled THEN 1 ELSE 0) - (IF AskFilled THEN 1 ELSE 0)
              /\ last.liquidated
              /\ domain.wealth = last.fills.wealth + domain.dynamics.price * last.fills.inv
              /\ domain.inv_terminal = last.fills.inv
              /\ domain.inv = 0)

\* a Trader that ended its episode holding -1 has been stepped again: the
\* price moved, a bid filled from inv = 0, and inv_terminal now holds 1
C30_Witness ==
    /\ Stepped
    /\ domain.kind = "Trader"
    /\ last.transition.from.terminal
    /\ last.before.time = TimeOne
    /\ domain.dynamics.time = 2 * TimeOne
    /\ last.price_inc /= 0
    /\ last.before.inv_terminal = -1
    /\ BidFilled
    /\ ~AskFilled
    /\ domain.inv_terminal = 1
    /\ domain.inv = 0

====
